---- MODULE Spec2Model ----
(***************************************************************************)
(* LuxeClean API (app-functions/index.js): the pricing engine, the field   *)
(* guards, the four resource handlers and the document store they write.   *)
(*                                                                         *)
(* JavaScript values are tagged records.  A number is held in fixed point, *)
(* in tenths (n = 15 is 1.5), so that fractional inputs exist; NaN is a    *)
(* number with nan = TRUE.  A string is a sequence of one-character        *)
(* strings.  An object is a record of JavaScript values under f.           *)
(***************************************************************************)
EXTENDS Integers, Sequences, FiniteSets, TLC

VARIABLES quotes, jobs, linen_orders, clock, resp, patch, log, call

vars == <<quotes, jobs, linen_orders, clock, resp, patch, log, call>>

-----------------------------------------------------------------------------
(* JavaScript values                                                       *)

Undefined == [t |-> "undefined"]
Null == [t |-> "null"]
Bool(x) == [t |-> "boolean", b |-> x]
Num(tenths) == [t |-> "number", nan |-> FALSE, n |-> tenths]
NaN == [t |-> "number", nan |-> TRUE, n |-> 0]
Str(chars) == [t |-> "string", s |-> chars]
Obj(fields) == [t |-> "object", f |-> fields]

\* the integer i as a fixed-point number
Fix(i) == i * 10

\* typeof v
TypeOf(v) == IF v.t = "null" THEN "object" ELSE v.t

\* obj.key, for a value that is not null or undefined: undefined when the
\* value has no such property
Prop(v, key) ==
    IF v.t = "object" /\ key \in DOMAIN v.f THEN v.f[key] ELSE Undefined

\* !!v
Truthy(v) ==
    CASE v.t = "undefined" -> FALSE
      [] v.t = "null" -> FALSE
      [] v.t = "boolean" -> v.b
      [] v.t = "number" -> ~v.nan /\ v.n # 0
      [] v.t = "string" -> Len(v.s) > 0
      [] v.t = "object" -> TRUE

RECURSIVE TrimStart(_)
TrimStart(s) == IF s # <<>> /\ Head(s) = " " THEN TrimStart(Tail(s)) ELSE s

RECURSIVE TrimEnd(_)
TrimEnd(s) ==
    IF s # <<>> /\ s[Len(s)] = " " THEN TrimEnd(SubSeq(s, 1, Len(s) - 1)) ELSE s

\* String.prototype.trim
Trim(s) == TrimEnd(TrimStart(s))

Digits == {"0", "1", "2", "3", "4", "5", "6", "7", "8", "9"}

DigitVal(c) ==
    CASE c = "0" -> 0 [] c = "1" -> 1 [] c = "2" -> 2 [] c = "3" -> 3
      [] c = "4" -> 4 [] c = "5" -> 5 [] c = "6" -> 6 [] c = "7" -> 7
      [] c = "8" -> 8 [] c = "9" -> 9

RECURSIVE DigitsValue(_)
DigitsValue(s) ==
    IF s = <<>> THEN 0
    ELSE DigitsValue(SubSeq(s, 1, Len(s) - 1)) * 10 + DigitVal(s[Len(s)])

RECURSIVE DigitPrefixLen(_)
DigitPrefixLen(s) ==
    IF s # <<>> /\ Head(s) \in Digits THEN 1 + DigitPrefixLen(Tail(s)) ELSE 0

\* the value of the digits whole, then "." and the digits frac (of which the
\* fixed point keeps the first); NaN when there is no digit or a non-digit
parseFraction(whole, frac) ==
    IF DigitPrefixLen(frac) # Len(frac) \/ Len(whole) + Len(frac) = 0 THEN NaN
    ELSE Num(DigitsValue(whole) * 10 + (IF frac = <<>> THEN 0 ELSE DigitVal(Head(frac))))

\* whole is the leading digits of an unsigned literal and rest what follows
parseParts(whole, rest) ==
    IF rest = <<>> THEN (IF whole = <<>> THEN NaN ELSE Num(DigitsValue(whole) * 10))
    ELSE IF Head(rest) # "." THEN NaN
    ELSE parseFraction(whole, Tail(rest))

parseUnsigned(u) ==
    parseParts(SubSeq(u, 1, DigitPrefixLen(u)), SubSeq(u, DigitPrefixLen(u) + 1, Len(u)))

negate(x) == IF x.nan THEN x ELSE Num(0 - x.n)

parseTrimmed(t) ==
    IF t = <<>> THEN Num(0)
    ELSE IF Head(t) = "-" THEN negate(parseUnsigned(Tail(t)))
    ELSE IF Head(t) = "+" THEN parseUnsigned(Tail(t))
    ELSE parseUnsigned(t)

\* Number(string): trimmed; empty is 0; an optionally signed decimal literal
\* is its value; anything else is NaN
StringToNumber(s) == parseTrimmed(Trim(s))

\* Number(v)
Number(v) ==
    CASE v.t = "undefined" -> NaN
      [] v.t = "null" -> Num(0)
      [] v.t = "boolean" -> IF v.b THEN Num(Fix(1)) ELSE Num(0)
      [] v.t = "number" -> v
      [] v.t = "string" -> StringToNumber(v.s)
      [] v.t = "object" -> NaN

\* String(v).trim() of a string value
TrimStr(v) == Str(Trim(v.s))

-----------------------------------------------------------------------------
(* Constants / Pricing (AUD)                                               *)

\* the two per-room rates exchanged
PRICING_RatesSwapped ==
    [base |-> 85, perBedroom |-> 15, perBathroom |-> 20, deepClean |-> 90,
     linenAddon |-> 35, linenStandalone |-> 45, currency |-> "AUD"]

PRICING ==
    [base |-> 85, perBedroom |-> 20, perBathroom |-> 15, deepClean |-> 90,
     linenAddon |-> 35, linenStandalone |-> 45, currency |-> "AUD"]

\* Math.max(0, x || 0): a negative count clamped to 0
OrZero_Clamped(x) == IF x.nan \/ x.n <= 0 THEN 0 ELSE x.n

\* x || 0 of a number x, as a fixed-point magnitude: NaN and 0 give 0
OrZero(x) == IF x.nan \/ x.n = 0 THEN 0 ELSE x.n

\* a parameter default: the default replaces undefined only
Default(v, d) == IF v.t = "undefined" THEN d ELSE v

\* the result object of computeTurnoverPrice
priceOf(base, bedroomsCost, bathroomsCost, deepCost, linenCost) ==
    [threw |-> FALSE,
     total |-> base + bedroomsCost + bathroomsCost + deepCost + linenCost,
     breakdown |->
         [base |-> base, bedroomsCost |-> bedroomsCost,
          bathroomsCost |-> bathroomsCost, deepClean |-> deepCost,
          premiumLinen |-> linenCost],
     currency |-> PRICING.currency]

\* computeTurnoverPrice({ bedrooms = 0, bathrooms = 0, addOns = {} }); reading
\* a property of a null addOns throws a TypeError
computeTurnoverPrice(bedrooms, bathrooms, addOns) ==
    IF addOns.t = "null" THEN [threw |-> TRUE]
    ELSE priceOf(Fix(PRICING.base),
                 OrZero(Number(Default(bedrooms, Num(0)))) * PRICING.perBedroom,
                 OrZero(Number(Default(bathrooms, Num(0)))) * PRICING.perBathroom,
                 IF Truthy(Prop(Default(addOns, Obj(<<>>)), "deepClean"))
                     THEN Fix(PRICING.deepClean) ELSE 0,
                 IF Truthy(Prop(Default(addOns, Obj(<<>>)), "premiumLinen"))
                     THEN Fix(PRICING.linenAddon) ELSE 0)

\* Minimal field guards
isNonEmptyString(v) == TypeOf(v) = "string" /\ Len(Trim(v.s)) > 0

\* v > 0 in place of v >= 0
isPositiveInt_Strict(v) ==
    TypeOf(v) = "number" /\ ~v.nan /\ v.n % 10 = 0 /\ v.n > 0

\* Number.isInteger(v) && v >= 0
isPositiveInt(v) ==
    TypeOf(v) = "number" /\ ~v.nan /\ v.n % 10 = 0 /\ v.n >= 0

RECURSIVE SumOver(_, _)
SumOver(f, keys) ==
    IF keys = {} THEN 0
    ELSE LET k == CHOOSE k \in keys : TRUE
         IN  f[k] + SumOver(f, keys \ {k})

\* the sum of the values of a breakdown object
SumValues(f) == SumOver(f, DOMAIN f)

-----------------------------------------------------------------------------
(* Inputs                                                                  *)

MaxRooms == 2

abc == <<"a", "b", "c">>

\* values a caller can put where a room count is expected
NumInputs ==
    {Num(Fix(i)) : i \in (0 - MaxRooms)..MaxRooms}
    \cup {Num(15), NaN, Undefined, Null, Bool(TRUE), Bool(FALSE), Obj(<<>>)}
    \cup {Str(<<>>), Str(<<" ">>), Str(abc), Str(<<"2">>), Str(<<" ", "1", " ">>),
          Str(<<"1", ".", "5">>), Str(<<"-", "1">>)}

\* values a caller can put where an add-on flag is expected
FlagInputs == {Undefined, Bool(TRUE), Bool(FALSE), Str(<<"y">>), Num(0)}

AddOnInputs ==
    {Undefined, Null, Obj(<<>>), Str(abc)}
    \cup {Obj([deepClean |-> d, premiumLinen |-> p]) : d, p \in FlagInputs}

-----------------------------------------------------------------------------
(* The document store                                                      *)

\* FieldValue.serverTimestamp(): a sentinel the store replaces, when it
\* writes, by its own time
serverTimestamp == [sentinel |-> TRUE, at |-> 0]

Time(now) == [sentinel |-> FALSE, at |-> now]

WithServerTime(v, now) == IF v.sentinel THEN Time(now) ELSE v

\* f with key k set to v, k added when f has no such key
Put(f, k, v) == [x \in DOMAIN f \cup {k} |-> IF x = k THEN v ELSE f[x]]

\* collection.add(data): the stored document, server times resolved; its id
\* is its position in the collection
add(collection, data, now) ==
    Append(collection,
           [data EXCEPT !.createdAt = WithServerTime(@, now),
                        !.updatedAt = WithServerTime(@, now)])

\* update() that writes updatedAt and loses the checklist paths
update_OnlyTimestamp(doc, u, now) ==
    [doc EXCEPT !.updatedAt = WithServerTime(u.updatedAt, now)]

\* update() with the whole checklist map written instead of its dot paths
update_WholeChecklist(doc, u, now) ==
    [doc EXCEPT !.checklist = u.checklist,
                !.updatedAt = WithServerTime(u.updatedAt, now)]

\* docRef.update(u) of an existing document: every "checklist.<k>" path of u
\* is set inside the nested checklist (the other nested fields are kept), and
\* updatedAt is set; one atomic write
update(doc, u, now) ==
    [doc EXCEPT !.checklist =
                    [k \in DOMAIN doc.checklist \cup DOMAIN u.checklist |->
                        IF k \in DOMAIN u.checklist THEN u.checklist[k]
                        ELSE doc.checklist[k]],
                !.updatedAt = WithServerTime(u.updatedAt, now)]

NoDoc == [none |-> TRUE]

\* sendError(res, code, message)
sendError(code, message) ==
    [status |-> code, error |-> message, id |-> 0, data |-> NoDoc]

created(data) == [status |-> 201, error |-> <<>>, id |-> 0, data |-> data]

\* a nullable trimmed string field of a document
TrimmedOrNull(v) == IF isNonEmptyString(v) THEN TrimStr(v) ELSE Null

-----------------------------------------------------------------------------
(* POST /quotes                                                            *)

\* the document assembled from the validated fields
quotesData(hostName, email, phone, address, bedrooms, bathrooms, addOns, notes, pricing) ==
    [hostName |-> TrimStr(hostName),
     email |-> TrimStr(email),
     phone |-> TrimmedOrNull(phone),
     property |-> [address |-> TrimStr(address),
                   bedrooms |-> bedrooms.n,
                   bathrooms |-> bathrooms.n],
     preferences |->
         [addOns |-> [deepClean |-> Truthy(Prop(addOns, "deepClean")),
                      premiumLinen |-> Truthy(Prop(addOns, "premiumLinen"))]],
     notes |-> TrimmedOrNull(notes),
     pricing |-> [total |-> pricing.total, breakdown |-> pricing.breakdown,
                  currency |-> pricing.currency],
     currency |-> PRICING.currency,
     status |-> "quoted",
     createdAt |-> serverTimestamp,
     updatedAt |-> serverTimestamp]

\* from the destructuring of property on: bedrooms and bathrooms are
\* Number(property.bedrooms) and Number(property.bathrooms)
quotesProperty(hostName, email, phone, address, bedrooms, bathrooms, addOns, notes) ==
    IF ~isNonEmptyString(address)
         THEN sendError(400, <<"property.address is required">>)
    ELSE IF ~isPositiveInt(bedrooms)
         THEN sendError(400, <<"property.bedrooms must be a non-negative integer">>)
    ELSE IF ~isPositiveInt(bathrooms)
         THEN sendError(400, <<"property.bathrooms must be a non-negative integer">>)
    ELSE created(quotesData(hostName, email, phone, address, bedrooms, bathrooms,
                            addOns, notes,
                            computeTurnoverPrice(bedrooms, bathrooms, addOns)))

\* (x && x.addOns) || {} of the preferences x
prefAddOns(preferences) ==
    IF Truthy(preferences) /\ Truthy(Prop(preferences, "addOns"))
    THEN Prop(preferences, "addOns") ELSE Obj(<<>>)

quotesFields(hostName, email, phone, property, preferences, notes) ==
    IF ~isNonEmptyString(hostName) THEN sendError(400, <<"hostName is required">>)
    ELSE IF ~isNonEmptyString(email) THEN sendError(400, <<"email is required">>)
    ELSE IF ~Truthy(property) \/ TypeOf(property) # "object"
         THEN sendError(400, <<"property is required">>)
    ELSE quotesProperty(hostName, email, phone, Prop(property, "address"),
                        Number(Prop(property, "bedrooms")),
                        Number(Prop(property, "bathrooms")),
                        prefAddOns(preferences), notes)

\* the handler up to its store call: the error to send, or the data to add
quotesRequest(body) ==
    quotesFields(Prop(body, "hostName"), Prop(body, "email"), Prop(body, "phone"),
                 Prop(body, "property"),
                 Default(Prop(body, "preferences"), Obj(<<>>)), Prop(body, "notes"))

\* the response of a creation handler: its error, or 201 with the data and
\* the id the store assigned
creationResponse(route, body, out, id) ==
    [route |-> route, body |-> body] @@
    (IF out.status # 201 THEN out ELSE [out EXCEPT !.id = id])

-----------------------------------------------------------------------------
(* POST /jobs                                                              *)

\* a list that lets the unrecognized key through
allowedKeys_WithUnknown ==
    {"bathroomsDone", "kitchenDone", "floorsDone", "trashOut", "linensChanged",
     "restockSupplies", "photosTaken", "unknownField"}

\* the seven checklist fields
allowedKeys ==
    {"bathroomsDone", "kitchenDone", "floorsDone", "trashOut", "linensChanged",
     "restockSupplies", "photosTaken"}

\* linensChanged defaulted like the six other fields
checklistDefault_AllFalse(addOns) == [k \in allowedKeys |-> FALSE]

checklistDefault(addOns) ==
    [bathroomsDone |-> FALSE,
     kitchenDone |-> FALSE,
     floorsDone |-> FALSE,
     trashOut |-> FALSE,
     linensChanged |-> Truthy(Prop(addOns, "premiumLinen")),
     restockSupplies |-> FALSE,
     photosTaken |-> FALSE]

\* the pricing fields of a computed price
computed(c) == [total |-> c.total, breakdown |-> c.breakdown, currency |-> c.currency]

\* the override taken whenever a price is present, whatever its type
jobPricing_AnyPrice(price, bedrooms, bathrooms, addOns) ==
    IF price.t # "undefined"
    THEN [total |-> Number(price).n,
          breakdown |-> [customOverride |-> Number(price).n],
          currency |-> PRICING.currency]
    ELSE computed(computeTurnoverPrice(bedrooms, bathrooms, addOns))

\* typeof price === "number" ? the override : the computed price; bedrooms
\* and bathrooms are Number(bedrooms) and Number(bathrooms)
jobPricing(price, bedrooms, bathrooms, addOns) ==
    IF TypeOf(price) = "number"
    THEN [total |-> Number(price).n,
          breakdown |-> [customOverride |-> Number(price).n],
          currency |-> PRICING.currency]
    ELSE computed(computeTurnoverPrice(bedrooms, bathrooms, addOns))

\* the document assembled from the validated fields
jobsData(quoteId, start, end, address, bedrooms, bathrooms, addOns, price, notes) ==
    [quoteId |-> TrimmedOrNull(quoteId),
     schedule |-> [start |-> start, end |-> end],
     property |-> [address |-> TrimStr(address),
                   bedrooms |-> bedrooms.n,
                   bathrooms |-> bathrooms.n],
     addOns |-> [deepClean |-> Truthy(Prop(addOns, "deepClean")),
                 premiumLinen |-> Truthy(Prop(addOns, "premiumLinen"))],
     pricing |-> jobPricing(price, bedrooms, bathrooms, addOns),
     currency |-> PRICING.currency,
     status |-> "scheduled",
     checklist |-> checklistDefault(addOns),
     notes |-> TrimmedOrNull(notes),
     createdAt |-> serverTimestamp,
     updatedAt |-> serverTimestamp]

\* from the destructuring of property on; a null addOns makes the property
\* reads of lines 300-311 throw, which the catch answers with 500
jobsProperty(quoteId, start, end, address, bedrooms, bathrooms, addOns, price, notes) ==
    IF ~isNonEmptyString(address)
         THEN sendError(400, <<"property.address is required">>)
    ELSE IF ~isPositiveInt(bedrooms)
         THEN sendError(400, <<"property.bedrooms must be a non-negative integer">>)
    ELSE IF ~isPositiveInt(bathrooms)
         THEN sendError(400, <<"property.bathrooms must be a non-negative integer">>)
    ELSE IF addOns.t = "null" THEN sendError(500, <<"Failed to create job">>)
    ELSE created(jobsData(quoteId, start, end, address, bedrooms, bathrooms,
                          addOns, price, notes))

jobsFields(quoteId, schedule, property, addOns, price, notes) ==
    IF ~Truthy(schedule) \/ TypeOf(schedule) # "object"
         THEN sendError(400, <<"schedule is required">>)
    ELSE IF ~isNonEmptyString(Prop(schedule, "start"))
         THEN sendError(400, <<"schedule.start is required (ISO string)">>)
    ELSE IF ~isNonEmptyString(Prop(schedule, "end"))
         THEN sendError(400, <<"schedule.end is required (ISO string)">>)
    ELSE IF ~Truthy(property) \/ TypeOf(property) # "object"
         THEN sendError(400, <<"property is required">>)
    ELSE jobsProperty(quoteId, Prop(schedule, "start"), Prop(schedule, "end"),
                      Prop(property, "address"),
                      Number(Prop(property, "bedrooms")),
                      Number(Prop(property, "bathrooms")),
                      addOns, price, notes)

\* the handler up to its store call: the error to send, or the data to add
jobsRequest(body) ==
    jobsFields(Prop(body, "quoteId"), Prop(body, "schedule"), Prop(body, "property"),
               Default(Prop(body, "addOns"), Obj(<<>>)), Prop(body, "price"),
               Prop(body, "notes"))

-----------------------------------------------------------------------------
(* POST /linen/orders                                                      *)

\* Number(x) || 0 of an item count
itemCount(v) == OrZero(Number(v))

\* the flat fee raised without its breakdown
linenPricing_Repriced ==
    [total |-> Fix(50),
     breakdown |-> [pickup |-> Fix(10), processing |-> Fix(25), delivery |-> Fix(10)],
     currency |-> PRICING.currency]

\* Flat fee for standalone linen orders
linenPricing ==
    [total |-> Fix(PRICING.linenStandalone),
     breakdown |-> [pickup |-> Fix(10), processing |-> Fix(25), delivery |-> Fix(10)],
     currency |-> PRICING.currency]

\* from the destructuring of property on; a null items makes the property
\* reads of lines 468-473 throw, which the catch answers with 500
linenFields(jobId, address, items, pickupAt, returnAt, notes) ==
    IF ~isNonEmptyString(address)
         THEN sendError(400, <<"property.address is required">>)
    ELSE IF ~isNonEmptyString(pickupAt) \/ ~isNonEmptyString(returnAt)
         THEN sendError(400, <<"pickupAt and returnAt are required">>)
    ELSE IF items.t = "null" THEN sendError(500, <<"linen_order_failed">>)
    ELSE created(
        [jobId |-> TrimmedOrNull(jobId),
         property |-> [address |-> TrimStr(address)],
         items |-> [queenSets |-> itemCount(Prop(items, "queenSets")),
                    doubleSets |-> itemCount(Prop(items, "doubleSets")),
                    singleSets |-> itemCount(Prop(items, "singleSets")),
                    towelSets |-> itemCount(Prop(items, "towelSets")),
                    bathMats |-> itemCount(Prop(items, "bathMats")),
                    teaTowels |-> itemCount(Prop(items, "teaTowels"))],
         schedule |-> [pickupAt |-> pickupAt, returnAt |-> returnAt],
         pricing |-> linenPricing,
         currency |-> PRICING.currency,
         status |-> "scheduled",
         notes |-> TrimmedOrNull(notes),
         createdAt |-> serverTimestamp,
         updatedAt |-> serverTimestamp])

\* the handler up to its store call: the error to send, or the data to add
linenRequest(body) ==
    IF ~Truthy(Prop(body, "property")) \/ TypeOf(Prop(body, "property")) # "object"
         THEN sendError(400, <<"property is required">>)
    ELSE linenFields(Prop(body, "jobId"), Prop(Prop(body, "property"), "address"),
                     Default(Prop(body, "items"), Obj(<<>>)),
                     Prop(body, "pickupAt"), Prop(body, "returnAt"), Prop(body, "notes"))

-----------------------------------------------------------------------------
(* PATCH /jobs/:id/checklist                                               *)

noFields == [k \in {} |-> FALSE]

\* the loop with a non-boolean value skipped instead of refused
RECURSIVE checklistLoop_SkipNonBoolean(_, _)
checklistLoop_SkipNonBoolean(entries, fields) ==
    IF entries = <<>> THEN [error |-> <<>>, fields |-> fields]
    ELSE IF Head(entries).k \notin allowedKeys \/ TypeOf(Head(entries).v) # "boolean"
         THEN checklistLoop_SkipNonBoolean(Tail(entries), fields)
    ELSE checklistLoop_SkipNonBoolean(Tail(entries),
                                      Put(fields, Head(entries).k, Head(entries).v.b))

\* the loop over Object.entries(body): the first recognized key with a
\* non-boolean value ends the request; unrecognized keys are skipped
RECURSIVE checklistLoop(_, _)
checklistLoop(entries, fields) ==
    IF entries = <<>> THEN [error |-> <<>>, fields |-> fields]
    ELSE IF Head(entries).k \notin allowedKeys THEN checklistLoop(Tail(entries), fields)
    ELSE IF TypeOf(Head(entries).v) # "boolean"
         THEN [error |-> <<"Checklist field", Head(entries).k, "must be boolean">>,
               fields |-> fields]
    ELSE checklistLoop(Tail(entries), Put(fields, Head(entries).k, Head(entries).v.b))

\* what follows the loop: hasAny is false when no field was taken
checklistBuilt(built) ==
    IF built.error # <<>> THEN sendError(400, built.error)
    ELSE IF DOMAIN built.fields = {}
         THEN sendError(400, <<"No valid checklist fields provided">>)
    ELSE [status |-> 200, error |-> <<>>,
          update |-> [checklist |-> built.fields, updatedAt |-> serverTimestamp]]

\* the handler up to its first store call: the 400 to send, or the update
checklistRequest(body) == checklistBuilt(checklistLoop(body, noFields))

-----------------------------------------------------------------------------
(* The state: the three collections, the store's time, the last response   *)
(* sent by a handler that answers in one step, the checklist requests in   *)
(* flight, the order in which their updates were applied, and one call of  *)
(* the pricing engine                                                      *)

MaxPatch == 2

MaxDocs == 1

MaxJobs == 2

MaxCreated == 1

MaxClock == 1

\* a checklist request not yet made: where it stands (pc), its target and its
\* update, its response, and the positions in log of its update and re-read
Idle ==
    [pc |-> "idle", id |-> 0, existed |-> FALSE,
     update |-> [checklist |-> noFields, updatedAt |-> serverTimestamp],
     status |-> 0, error |-> <<>>, data |-> NoDoc, appliedAt |-> 0, readAt |-> 0]

NoCall == [done |-> FALSE]

Init ==
    /\ quotes = <<>>
    /\ jobs = <<>>
    /\ linen_orders = <<>>
    /\ clock = 0
    /\ resp = [route |-> "none"]
    /\ patch = [p \in 1..MaxPatch |-> Idle]
    /\ log = <<>>
    /\ call = NoCall

\* the store's time passes
Tick ==
    /\ clock < MaxClock
    /\ clock' = clock + 1
    /\ UNCHANGED <<quotes, jobs, linen_orders, resp, patch, log, call>>

\* await db.collection(...).add(data), reached only past validation
stored(collection, out, now) ==
    IF out.status = 201 THEN add(collection, out.data, now) ELSE collection

PostQuotes(body) ==
    /\ quotes' = stored(quotes, quotesRequest(body), clock)
    /\ resp' = creationResponse("POST /quotes", body, quotesRequest(body), Len(quotes) + 1)
    /\ UNCHANGED <<jobs, linen_orders, clock, patch, log, call>>

PostJobs(body) ==
    /\ jobs' = stored(jobs, jobsRequest(body), clock)
    /\ resp' = creationResponse("POST /jobs", body, jobsRequest(body), Len(jobs) + 1)
    /\ UNCHANGED <<quotes, linen_orders, clock, patch, log, call>>

PostLinenOrders(body) ==
    /\ linen_orders' = stored(linen_orders, linenRequest(body), clock)
    /\ resp' = creationResponse("POST /linen/orders", body, linenRequest(body),
                                Len(linen_orders) + 1)
    /\ UNCHANGED <<quotes, jobs, clock, patch, log, call>>

\* the handler up to its first await: an invalid body is answered 400 at
\* once; a valid one becomes the request p in flight, about to read the job
PatchBegin(p, id, body) ==
    /\ patch[p].pc = "idle"
    /\ \A q \in 1..(p - 1) : patch[q].pc # "idle"
    /\ IF checklistRequest(body).status = 400
       THEN /\ resp' = [route |-> "PATCH /jobs/:id/checklist", body |-> body,
                        target |-> id] @@ checklistRequest(body)
            /\ UNCHANGED patch
       ELSE /\ patch' = [patch EXCEPT ![p] =
                            [Idle EXCEPT !.pc = "get", !.id = id,
                                         !.existed = id <= Len(jobs),
                                         !.update = checklistRequest(body).update]]
            /\ UNCHANGED resp
    /\ UNCHANGED <<quotes, jobs, linen_orders, clock, log, call>>

\* const snap = await docRef.get(); 404 when the job does not exist
PatchGet(p) ==
    /\ patch[p].pc = "get"
    /\ patch' = [patch EXCEPT ![p] =
                    IF patch[p].id > Len(jobs)
                    THEN [@ EXCEPT !.pc = "done", !.status = 404,
                                   !.error = <<"Job not found">>]
                    ELSE [@ EXCEPT !.pc = "update"]]
    /\ UNCHANGED <<quotes, jobs, linen_orders, clock, resp, log, call>>

\* await docRef.update(update)
PatchUpdate(p) ==
    /\ patch[p].pc = "update"
    /\ jobs' = [jobs EXCEPT ![patch[p].id] = update(@, patch[p].update, clock)]
    /\ log' = Append(log, p)
    /\ patch' = [patch EXCEPT ![p].pc = "reget", ![p].appliedAt = Len(log) + 1]
    /\ UNCHANGED <<quotes, linen_orders, clock, resp, call>>

\* const updated = await docRef.get(); res.json({ ok, id, ...updated.data() })
PatchReget(p) ==
    /\ patch[p].pc = "reget"
    /\ patch' = [patch EXCEPT ![p].pc = "done", ![p].status = 200,
                              ![p].data = jobs[patch[p].id], ![p].readAt = Len(log)]
    /\ UNCHANGED <<quotes, jobs, linen_orders, clock, resp, log, call>>

-----------------------------------------------------------------------------
(* Request bodies                                                          *)

padded == Str(<<" ", "a", " ">>)

blank == Str(<<" ">>)

propertyOf(bedrooms, bathrooms) ==
    Obj([address |-> padded, bedrooms |-> bedrooms, bathrooms |-> bathrooms])

goodProperty == propertyOf(Num(Fix(2)), Num(Fix(1)))

\* properties that are rejected before their room counts are read
BadProperties ==
    {Undefined, Null, padded,
     Obj([address |-> blank, bedrooms |-> Num(Fix(2)), bathrooms |-> Num(Fix(1))])}

\* the pairs of room counts tried: each value beside a good partner, and
\* three pairs more
RoomPairs ==
    {pr \in NumInputs \X NumInputs : pr[1] = Num(Fix(1)) \/ pr[2] = Num(Fix(1))}
    \cup {<<Str(abc), Num(15)>>, <<Null, Null>>, <<Num(0), Num(0)>>}

quoteBody(hostName, email, property, preferences) ==
    Obj([hostName |-> hostName, email |-> email, phone |-> Undefined,
         property |-> property, preferences |-> preferences, notes |-> padded])

QuoteBodiesWide ==
    {quoteBody(padded, padded, propertyOf(pr[1], pr[2]), Undefined) : pr \in RoomPairs}
    \cup {quoteBody(padded, padded, goodProperty, Obj([addOns |-> a])) : a \in AddOnInputs}
    \cup {quoteBody(padded, padded, goodProperty, pref) : pref \in {Null, Str(abc)}}
    \cup {quoteBody(h, padded, goodProperty, Undefined) : h \in {Undefined, blank, Num(0)}}
    \cup {quoteBody(padded, e, goodProperty, Undefined) : e \in {Undefined, blank}}
    \cup {quoteBody(padded, padded, bad, Undefined) : bad \in BadProperties}

QuoteBodies ==
    {quoteBody(padded, padded, goodProperty,
               Obj([addOns |-> Obj([deepClean |-> Bool(TRUE)])])),
     quoteBody(blank, padded, goodProperty, Undefined)}

goodSchedule == Obj([start |-> padded, end |-> padded])

jobBody(schedule, property, addOns, price) ==
    Obj([quoteId |-> Undefined, schedule |-> schedule, property |-> property,
         addOns |-> addOns, price |-> price, notes |-> Undefined])

\* values a caller can put where the price override is expected
PriceInputs ==
    {Undefined, Null, Num(Fix(200)), Num(0), Num(995), Num(Fix(0 - 5)),
     Str(<<"2", "0", "0">>), Bool(TRUE)}

linenOn == Obj([premiumLinen |-> Bool(TRUE)])

JobBodiesWide ==
    {jobBody(goodSchedule, propertyOf(pr[1], pr[2]), Undefined, Undefined) : pr \in RoomPairs}
    \cup {jobBody(goodSchedule, goodProperty, a, Undefined) : a \in AddOnInputs}
    \cup {jobBody(goodSchedule, goodProperty, a, pc) :
            a \in {Undefined, Null, linenOn}, pc \in PriceInputs}
    \cup {jobBody(goodSchedule, propertyOf(Str(abc), Num(Fix(1))), Undefined, Num(Fix(200)))}
    \cup {jobBody(sch, goodProperty, Undefined, Undefined) :
            sch \in {Undefined, Null, Obj([start |-> blank, end |-> padded]),
                     Obj([start |-> padded])}}
    \cup {jobBody(goodSchedule, bad, Undefined, Undefined) : bad \in BadProperties}

JobBodies ==
    {jobBody(goodSchedule, goodProperty, linenOn, Undefined),
     jobBody(goodSchedule, goodProperty, Undefined, Num(Fix(200))),
     jobBody(Undefined, goodProperty, Undefined, Undefined)}

linenBody(property, items, pickupAt) ==
    Obj([jobId |-> padded, property |-> property, items |-> items,
         pickupAt |-> pickupAt, returnAt |-> padded, notes |-> Undefined])

LinenBodiesWide ==
    {linenBody(Obj([address |-> padded]), items, padded) :
        items \in {Undefined, Null,
                   Obj([queenSets |-> Num(Fix(2)), towelSets |-> Str(abc),
                        bathMats |-> Str(<<"2">>)])}}
    \cup {linenBody(bad, Undefined, padded) : bad \in {Undefined, Obj([address |-> blank])}}
    \cup {linenBody(Obj([address |-> padded]), Undefined, blank)}

LinenBodies ==
    {linenBody(Obj([address |-> padded]), Obj([queenSets |-> Num(Fix(2))]), padded),
     linenBody(Obj([address |-> padded]), Undefined, Undefined)}

\* the entries a checklist body is made of: two recognized keys and one
\* unrecognized key, with boolean and non-boolean values
PatchEntries ==
    {[k |-> "bathroomsDone", v |-> val] :
        val \in {Bool(TRUE), Bool(FALSE), Str(<<"y", "e", "s">>)}}
    \cup {[k |-> "floorsDone", v |-> Bool(TRUE)]}
    \cup {[k |-> "unknownField", v |-> val] : val \in {Bool(TRUE), Str(<<"x">>)}}

\* the checklist bodies: no entry, one entry, or two entries of different keys
PatchBodies ==
    {<<>>}
    \cup {<<e>> : e \in PatchEntries}
    \cup {q \in PatchEntries \X PatchEntries : q[1].k # q[2].k}

-----------------------------------------------------------------------------
(* The service: every handler, one checklist request at a time.  A store   *)
(* call is taken to succeed: its failure is the 500 of the handler's catch *)

JobIds == 1..MaxJobs

Next ==
    \/ Tick
    \/ /\ Len(quotes) < MaxDocs
       /\ \E body \in QuoteBodies : PostQuotes(body)
    \/ /\ Len(jobs) < MaxJobs
       /\ \E body \in JobBodies : PostJobs(body)
    \/ /\ Len(linen_orders) < MaxDocs
       /\ \E body \in LinenBodies : PostLinenOrders(body)
    \/ \E id \in JobIds, body \in PatchBodies : PatchBegin(1, id, body)
    \/ PatchGet(1)
    \/ PatchUpdate(1)
    \/ PatchReget(1)

Spec == Init /\ [][Next]_vars

-----------------------------------------------------------------------------
(* Checklist requests in flight together on one job                        *)

ValidPatchBodies == {body \in PatchBodies : checklistRequest(body).status = 200}

PatchNext ==
    \/ /\ jobs = <<>>
       /\ \E body \in JobBodies : PostJobs(body)
    \/ \E p \in 1..MaxPatch, body \in ValidPatchBodies : PatchBegin(p, 1, body)
    \/ \E p \in 1..MaxPatch : PatchGet(p)
    \/ \E p \in 1..MaxPatch : PatchUpdate(p)
    \/ \E p \in 1..MaxPatch : PatchReget(p)

PatchSpec == Init /\ [][PatchNext]_vars

-----------------------------------------------------------------------------
(* The creation handlers on their own, over the wide bodies                *)

created_count == Len(quotes) + Len(jobs) + Len(linen_orders)

CreateNext ==
    \/ /\ created_count < MaxCreated
       /\ \E body \in QuoteBodiesWide : PostQuotes(body)
    \/ /\ created_count < MaxCreated
       /\ \E body \in JobBodiesWide : PostJobs(body)
    \/ /\ created_count < MaxCreated
       /\ \E body \in LinenBodiesWide : PostLinenOrders(body)

CreateSpec == Init /\ [][CreateNext]_vars

-----------------------------------------------------------------------------
(* The pricing engine on its own: the arguments are drawn, then it is      *)
(* called once                                                             *)

PriceInit ==
    /\ quotes = <<>>
    /\ jobs = <<>>
    /\ linen_orders = <<>>
    /\ clock = 0
    /\ resp = [route |-> "none"]
    /\ patch = [p \in 1..MaxPatch |-> Idle]
    /\ log = <<>>
    /\ call \in {[done |-> FALSE, bedrooms |-> b, bathrooms |-> ba, addOns |-> a] :
                    b \in NumInputs, ba \in NumInputs, a \in AddOnInputs}

Evaluate ==
    /\ ~call.done
    /\ call' = [call EXCEPT !.done = TRUE] @@
               [result |-> computeTurnoverPrice(call.bedrooms, call.bathrooms, call.addOns)]
    /\ UNCHANGED <<quotes, jobs, linen_orders, clock, resp, patch, log>>

PriceNext == Evaluate

PriceSpec == PriceInit /\ [][PriceNext]_vars

-----------------------------------------------------------------------------
(* Properties of the pricing engine                                        *)

\* a number that is an integer >= 0
IsCount(v) == v.t = "number" /\ ~v.nan /\ v.n % 10 = 0 /\ v.n >= 0

BooleanFlags(a) ==
    /\ a.t = "object"
    /\ DOMAIN a.f = {"deepClean", "premiumLinen"}
    /\ a.f.deepClean.t = "boolean"
    /\ a.f.premiumLinen.t = "boolean"

\* C1: for non-negative integer bedrooms and bathrooms and boolean add-on
\* flags, computeTurnoverPrice returns total = 85 + 20*bedrooms + 15*bathrooms
\* + 90 if deepClean + 35 if premiumLinen, a breakdown of exactly these five
\* addends, which sum to total, and the currency AUD
C1_TurnoverPrice ==
    (call.done /\ IsCount(call.bedrooms) /\ IsCount(call.bathrooms)
        /\ BooleanFlags(call.addOns))
    => /\ ~call.result.threw
       /\ call.result.total =
            Fix(85) + 20 * call.bedrooms.n + 15 * call.bathrooms.n
            + (IF call.addOns.f.deepClean.b THEN Fix(90) ELSE 0)
            + (IF call.addOns.f.premiumLinen.b THEN Fix(35) ELSE 0)
       /\ call.result.breakdown =
            [base |-> Fix(85),
             bedroomsCost |-> 20 * call.bedrooms.n,
             bathroomsCost |-> 15 * call.bathrooms.n,
             deepClean |-> IF call.addOns.f.deepClean.b THEN Fix(90) ELSE 0,
             premiumLinen |-> IF call.addOns.f.premiumLinen.b THEN Fix(35) ELSE 0]
       /\ SumValues(call.result.breakdown) = call.result.total
       /\ call.result.currency = "AUD"

\* 2 bedrooms, 1 bathroom and both add-ons are priced 85 + 40 + 15 + 90 + 35
C1_Witness ==
    /\ call.done
    /\ call.bedrooms = Num(Fix(2))
    /\ call.bathrooms = Num(Fix(1))
    /\ call.addOns = Obj([deepClean |-> Bool(TRUE), premiumLinen |-> Bool(TRUE)])
    /\ call.result.total = Fix(265)

\* a string with a character no numeral has
NonNumericString(v) ==
    v.t = "string" /\ \E i \in 1..Len(v.s) : v.s[i] \notin Digits \cup {" ", "-", "+", "."}

\* null, absent, or a non-numeric string
NotANumber(v) == v.t \in {"null", "undefined"} \/ NonNumericString(v)

Negative(v) == v.t = "number" /\ ~v.nan /\ v.n < 0

\* C10 as stated: computeTurnoverPrice raises no error and prices every
\* malformed bedrooms or bathrooms (a non-numeric string, null, absent, or a
\* negative number) as 0 rooms; stated for an addOns that is not null
C10_MalformedAsZero ==
    (call.done /\ call.addOns.t # "null")
    => /\ ~call.result.threw
       /\ (NotANumber(call.bedrooms) \/ Negative(call.bedrooms))
            => call.result.breakdown.bedroomsCost = 0
       /\ (NotANumber(call.bathrooms) \/ Negative(call.bathrooms))
            => call.result.breakdown.bathroomsCost = 0

\* C10, amended: with an addOns that is not null, computeTurnoverPrice raises
\* no error; a non-numeric string, null or absent bedrooms or bathrooms is
\* priced as 0 rooms; a negative number is not: its cost is the rate times
\* the negative count; total is the sum of the five addends in each case
C10_NonNumericAsZero ==
    (call.done /\ call.addOns.t # "null")
    => /\ ~call.result.threw
       /\ NotANumber(call.bedrooms) => call.result.breakdown.bedroomsCost = 0
       /\ NotANumber(call.bathrooms) => call.result.breakdown.bathroomsCost = 0
       /\ Negative(call.bedrooms)
            => call.result.breakdown.bedroomsCost = 20 * call.bedrooms.n
       /\ Negative(call.bathrooms)
            => call.result.breakdown.bathroomsCost = 15 * call.bathrooms.n
       /\ call.result.total = SumValues(call.result.breakdown)
       /\ call.result.breakdown.base = Fix(85)

\* -1 bedrooms beside a non-numeric bathrooms: 85 - 20 + 0
C10_Witness ==
    /\ call.done
    /\ call.bedrooms = Num(Fix(0 - 1))
    /\ call.bathrooms = Str(abc)
    /\ call.addOns = Undefined
    /\ call.result.breakdown.bedroomsCost = Fix(0 - 20)
    /\ call.result.breakdown.bathroomsCost = 0
    /\ call.result.total = Fix(65)

-----------------------------------------------------------------------------
(* Properties of the creation handlers                                     *)

TheSevenFields ==
    {"bathroomsDone", "kitchenDone", "floorsDone", "trashOut", "linensChanged",
     "restockSupplies", "photosTaken"}

JobCreated == resp.route = "POST /jobs" /\ resp.status = 201

\* the truth value of the request's addOns.premiumLinen, false without addOns
WantsLinen(body) ==
    IF Prop(body, "addOns").t = "undefined" THEN FALSE
    ELSE Truthy(Prop(Prop(body, "addOns"), "premiumLinen"))

ScheduledWithDefaults(doc, linen) ==
    /\ doc.status = "scheduled"
    /\ DOMAIN doc.checklist = TheSevenFields
    /\ doc.checklist.linensChanged = linen
    /\ \A k \in TheSevenFields \ {"linensChanged"} : doc.checklist[k] = FALSE

\* C7: a job created by a successful POST /jobs is stored and returned with
\* status "scheduled" and a checklist of exactly the seven fields, where
\* linensChanged is the truth value of the request's addOns.premiumLinen
\* (false when addOns is absent) and the six others are false
C7_JobDefaults ==
    JobCreated
    => /\ ScheduledWithDefaults(resp.data, WantsLinen(resp.body))
       /\ resp.id = Len(jobs)
       /\ ScheduledWithDefaults(jobs[resp.id], WantsLinen(resp.body))

\* a job asked with premiumLinen is created with linensChanged set
C7_Witness ==
    /\ JobCreated
    /\ Prop(resp.body, "addOns") = linenOn
    /\ jobs[resp.id].checklist.linensChanged
    /\ ~jobs[resp.id].checklist.bathroomsDone

\* the rooms and add-ons of a request, as the pricing engine is given them
RequestRooms(body, key) == Number(Prop(Prop(body, "property"), key))

RequestAddOns(body) ==
    IF Prop(body, "addOns").t = "undefined" THEN Obj(<<>>) ELSE Prop(body, "addOns")

PricingFor(body) ==
    IF Prop(body, "price").t = "number"
    THEN [total |-> Prop(body, "price").n,
          breakdown |-> [customOverride |-> Prop(body, "price").n],
          currency |-> "AUD"]
    ELSE [total |-> computeTurnoverPrice(RequestRooms(body, "bedrooms"),
                                         RequestRooms(body, "bathrooms"),
                                         RequestAddOns(body)).total,
          breakdown |-> computeTurnoverPrice(RequestRooms(body, "bedrooms"),
                                             RequestRooms(body, "bathrooms"),
                                             RequestAddOns(body)).breakdown,
          currency |-> "AUD"]

\* C8: POST /jobs with a numeric price p stores and returns the pricing
\* {total: p, breakdown: {customOverride: p}, currency: "AUD"} whatever the
\* rooms and add-ons; without a numeric price it stores and returns the
\* pricing computeTurnoverPrice gives for the request's rooms and addOns
C8_PriceOverride ==
    JobCreated
    => /\ resp.data.pricing = PricingFor(resp.body)
       /\ resp.id = Len(jobs)
       /\ jobs[resp.id].pricing = PricingFor(resp.body)

\* a price of 200 beside premium linen and 2 bedrooms is stored as 200
C8_Witness ==
    /\ JobCreated
    /\ Prop(resp.body, "price") = Num(Fix(200))
    /\ Prop(resp.body, "addOns") = linenOn
    /\ jobs[resp.id].pricing =
         [total |-> Fix(200), breakdown |-> [customOverride |-> Fix(200)],
          currency |-> "AUD"]
    /\ jobs[resp.id].property.bedrooms = Fix(2)

\* the request got as far as its room counts: the fields validated before
\* them are valid
RoomsRead ==
    /\ resp.route \in {"POST /quotes", "POST /jobs"}
    /\ Prop(resp.body, "property").t = "object"
    /\ isNonEmptyString(Prop(Prop(resp.body, "property"), "address"))
    /\ resp.route = "POST /quotes"
         => /\ isNonEmptyString(Prop(resp.body, "hostName"))
            /\ isNonEmptyString(Prop(resp.body, "email"))
    /\ resp.route = "POST /jobs"
         => /\ Prop(resp.body, "schedule").t = "object"
            /\ isNonEmptyString(Prop(Prop(resp.body, "schedule"), "start"))
            /\ isNonEmptyString(Prop(Prop(resp.body, "schedule"), "end"))

Bedrooms == Prop(Prop(resp.body, "property"), "bedrooms")

Bathrooms == Prop(Prop(resp.body, "property"), "bathrooms")

\* negative, fractional or non-numeric, the latter including absent, null,
\* the empty string and booleans
ClaimedInvalid(v) ==
    \/ v.t \in {"undefined", "null", "boolean"}
    \/ v.t = "number" /\ ~IsCount(v)
    \/ v.t = "string" /\ (v.s = <<>> \/ ~IsCount(Number(v)))

\* C9 as stated: POST /quotes and POST /jobs answer 400 to every request
\* whose bedrooms or bathrooms is negative, fractional or non-numeric,
\* absent, null, the empty string and booleans included
C9_RejectsNonNumeric ==
    (RoomsRead /\ (ClaimedInvalid(Bedrooms) \/ ClaimedInvalid(Bathrooms)))
    => resp.status = 400

\* what null, the empty or blank string and the booleans coerce to
CoercedCount(v) ==
    CASE v.t = "null" -> 0
      [] v.t = "boolean" -> IF v.b THEN Fix(1) ELSE 0
      [] v.t = "string" /\ \A i \in 1..Len(v.s) : v.s[i] = " " -> 0
      [] OTHER -> Number(v).n

\* absent, a non-numeric string, or a negative or fractional number
PlainlyInvalid(v) ==
    \/ v.t = "undefined"
    \/ NonNumericString(v)
    \/ v.t = "number" /\ ~IsCount(v)

Accepted(v) == IsCount(Number(v))

BedroomsError == <<"property.bedrooms must be a non-negative integer">>

BathroomsError == <<"property.bathrooms must be a non-negative integer">>

C9_Answer ==
    RoomsRead
    => /\ ~Accepted(Bedrooms) => resp.status = 400 /\ resp.error = BedroomsError
       /\ (Accepted(Bedrooms) /\ ~Accepted(Bathrooms))
            => resp.status = 400 /\ resp.error = BathroomsError
       /\ (Accepted(Bedrooms) /\ Accepted(Bathrooms)) => resp.status # 400
       /\ PlainlyInvalid(Bedrooms) => ~Accepted(Bedrooms)
       /\ PlainlyInvalid(Bathrooms) => ~Accepted(Bathrooms)
       /\ Bedrooms.t \in {"null", "boolean"} \/ Bedrooms = Str(<<>>)
            => Accepted(Bedrooms)
       /\ resp.status = 201
            => /\ resp.data.property.bedrooms = CoercedCount(Bedrooms)
               /\ resp.data.property.bathrooms = CoercedCount(Bathrooms)

C9_NothingCreated ==
    (resp'.route \in {"POST /quotes", "POST /jobs"} /\ resp'.status = 400)
    => /\ quotes' = quotes
       /\ jobs' = jobs
       /\ linen_orders' = linen_orders

\* C9, amended: POST /quotes and POST /jobs answer 400, naming the field, to
\* every request (valid up to its room counts) whose bedrooms or bathrooms
\* is, after numeric coercion, not an integer >= 0: a negative or fractional
\* number, a non-numeric string, an absent value; no document is created in
\* any collection then.  Null, the empty string and false coerce to 0 and
\* true to 1, and are accepted as those counts
C9_RejectsAfterCoercion == []C9_Answer /\ [][C9_NothingCreated]_vars

\* a job with bathrooms "-1" is refused, naming bathrooms, and nothing is
\* stored
C9_Witness ==
    /\ resp.route = "POST /jobs"
    /\ RoomsRead
    /\ Bedrooms = Num(Fix(1))
    /\ Bathrooms = Str(<<"-", "1">>)
    /\ resp.status = 400
    /\ resp.error = BathroomsError
    /\ created_count = 0

-----------------------------------------------------------------------------
(* Properties of checklist requests in flight together                     *)

\* the update number i of the log names field k
Names(i, k) == k \in DOMAIN patch[log[i]].update.checklist

\* the last of the first n updates applied that names k, 0 when none does
LastNaming(k, n) ==
    IF \E i \in 1..n : Names(i, k)
    THEN CHOOSE i \in 1..n : Names(i, k) /\ \A j \in (i + 1)..n : ~Names(j, k)
    ELSE 0

CreationDefault(k) ==
    IF k = "linensChanged" THEN jobs[1].addOns.premiumLinen ELSE FALSE

\* the value of field k after the first n updates applied
ValueAfter(k, n) ==
    IF LastNaming(k, n) = 0 THEN CreationDefault(k)
    ELSE patch[log[LastNaming(k, n)]].update.checklist[k]

C5_LastWriteWins ==
    jobs # <<>>
    => /\ DOMAIN jobs[1].checklist = TheSevenFields
       /\ \A k \in TheSevenFields : jobs[1].checklist[k] = ValueAfter(k, Len(log))

C5_NoneRejected ==
    \A p \in 1..MaxPatch :
        (patch[p].pc = "done" /\ patch[p].existed)
        => /\ patch[p].status = 200
           /\ \E i \in 1..Len(log) : log[i] = p

C5_OneWrite ==
    (jobs # <<>> /\ jobs' # jobs)
    => \E p \in 1..MaxPatch :
        /\ patch[p].pc = "update"
        /\ log' = Append(log, p)
        /\ DOMAIN jobs'[1].checklist = TheSevenFields
        /\ \A k \in TheSevenFields :
             jobs'[1].checklist[k] =
                IF k \in DOMAIN patch[p].update.checklist
                THEN patch[p].update.checklist[k]
                ELSE jobs[1].checklist[k]

\* C5: with valid checklist requests in flight together on one existing job,
\* under every interleaving of their store calls, every change of the stored
\* job is one request's whole set of fields written in one step, no request
\* that found the job is refused or lost, and each checklist field holds the
\* value of the last update applied that named it, or its creation default
\* when none did (at every moment, so also once all requests have completed)
C5_LastAppliedWins ==
    [](C5_LastWriteWins /\ C5_NoneRejected) /\ [][C5_OneWrite]_vars

\* two requests naming bathroomsDone, applied in the order 2, 1: the value
\* of request 1 stands, beside the floorsDone of request 2
C5_Witness ==
    /\ \A p \in 1..2 : patch[p].pc = "done" /\ patch[p].status = 200
    /\ log = <<2, 1>>
    /\ patch[1].update.checklist = [bathroomsDone |-> TRUE]
    /\ patch[2].update.checklist = [bathroomsDone |-> FALSE, floorsDone |-> TRUE]
    /\ jobs[1].checklist.bathroomsDone
    /\ jobs[1].checklist.floorsDone

Answered200(p) == patch[p].pc = "done" /\ patch[p].status = 200

\* C6 as stated: in the document a successful checklist request returns,
\* every key the request supplied has the value it supplied, under every
\* interleaving with other requests to the same job
C6_ReturnsOwnValues ==
    \A p \in 1..MaxPatch :
        Answered200(p)
        => \A k \in DOMAIN patch[p].update.checklist :
              patch[p].data.checklist[k] = patch[p].update.checklist[k]

\* C6, amended: a successful checklist request responds 200 with the full
\* job document as stored when it is read back: every key the request
\* supplied has the value it supplied, unless an update of another request
\* naming that key was applied between this request's update and its read,
\* and then it has the value of the last such update
C6_ReturnsStoredValues ==
    \A p \in 1..MaxPatch :
        Answered200(p)
        => /\ patch[p].appliedAt \in 1..patch[p].readAt
           /\ log[patch[p].appliedAt] = p
           /\ DOMAIN patch[p].data = DOMAIN jobs[1]
           /\ \A f \in DOMAIN jobs[1] \ {"checklist", "updatedAt"} :
                patch[p].data[f] = jobs[1][f]
           /\ DOMAIN patch[p].data.checklist = TheSevenFields
           /\ \A k \in TheSevenFields :
                patch[p].data.checklist[k] = ValueAfter(k, patch[p].readAt)
           /\ \A k \in DOMAIN patch[p].update.checklist :
                /\ LastNaming(k, patch[p].readAt) >= patch[p].appliedAt
                /\ LastNaming(k, patch[p].readAt) = patch[p].appliedAt
                     => patch[p].data.checklist[k] = patch[p].update.checklist[k]

\* request 1 set bathroomsDone, request 2 cleared it before request 1 read
\* the job back: request 1 is answered with bathroomsDone false
C6_Witness ==
    /\ Answered200(1)
    /\ patch[1].update.checklist = [bathroomsDone |-> TRUE]
    /\ patch[1].appliedAt = 1
    /\ patch[1].readAt = 2
    /\ log = <<1, 2>>
    /\ ~patch[1].data.checklist.bathroomsDone

-----------------------------------------------------------------------------
(* Properties of the service                                               *)

SumsToTotal(doc) ==
    /\ doc.pricing.total = SumValues(doc.pricing.breakdown)
    /\ doc.pricing.currency = "AUD"

\* C2: after any sequence of successful creations and checklist updates,
\* every quote, job and linen order has pricing.total equal to the sum of the
\* values of pricing.breakdown and the pricing currency AUD; a price
\* override is the single entry customOverride equal to total; a linen order
\* has total 45 with pickup 10, processing 25 and delivery 10
C2_TotalIsSum ==
    /\ \A i \in 1..Len(quotes) : SumsToTotal(quotes[i])
    /\ \A i \in 1..Len(jobs) :
         /\ SumsToTotal(jobs[i])
         /\ "customOverride" \in DOMAIN jobs[i].pricing.breakdown
              => jobs[i].pricing.breakdown = [customOverride |-> jobs[i].pricing.total]
    /\ \A i \in 1..Len(linen_orders) :
         /\ SumsToTotal(linen_orders[i])
         /\ linen_orders[i].pricing.total = Fix(45)
         /\ linen_orders[i].pricing.breakdown =
              [pickup |-> Fix(10), processing |-> Fix(25), delivery |-> Fix(10)]

\* a quote, a linen order, a computed job and a job with a price override,
\* after a checklist update of the latter
C2_Witness ==
    /\ Len(quotes) = 1
    /\ Len(linen_orders) = 1
    /\ Len(jobs) = 2
    /\ "customOverride" \in DOMAIN jobs[2].pricing.breakdown
    /\ "base" \in DOMAIN jobs[1].pricing.breakdown
    /\ patch[1].pc = "done" /\ patch[1].status = 200 /\ patch[1].id = 2

ChecklistRoute == "PATCH /jobs/:id/checklist"

\* some recognized key carries a non-boolean value, or no key is recognized
InvalidChecklist(body) ==
    \/ \E i \in 1..Len(body) : body[i].k \in TheSevenFields /\ body[i].v.t # "boolean"
    \/ \A i \in 1..Len(body) : body[i].k \notin TheSevenFields

C3_Refused ==
    \A id \in JobIds, body \in PatchBodies :
        (InvalidChecklist(body) /\ PatchBegin(1, id, body))
        => /\ jobs' = jobs
           /\ patch' = patch
           /\ resp'.route = ChecklistRoute
           /\ resp'.body = body
           /\ resp'.status = 400

\* C3: a checklist request with a recognized key of a non-boolean value,
\* wherever the key sits in the body, or with no recognized key, is answered
\* 400 and writes nothing: the stored jobs are unchanged, updatedAt included,
\* and no request is left in flight to write later
C3_InvalidIsRefused == [][C3_Refused]_vars

\* floorsDone: true followed by bathroomsDone: "yes" on an existing job is
\* refused, and floorsDone and updatedAt are as at creation
C3_Witness ==
    /\ resp.route = ChecklistRoute
    /\ resp.status = 400
    /\ resp.body = <<[k |-> "floorsDone", v |-> Bool(TRUE)],
                     [k |-> "bathroomsDone", v |-> Str(<<"y", "e", "s">>)]>>
    /\ resp.target = 1
    /\ Len(jobs) >= 1
    /\ ~jobs[1].checklist.floorsDone
    /\ jobs[1].updatedAt = jobs[1].createdAt

RecognizedKeys(body) == {body[i].k : i \in 1..Len(body)} \cap TheSevenFields

SuppliedValue(body, k) == body[CHOOSE i \in 1..Len(body) : body[i].k = k].v.b

\* a valid request carries to the store the recognized keys of its body, each
\* with the boolean supplied, and nothing else
C4_Carries ==
    \A id \in JobIds, body \in PatchBodies :
        (PatchBegin(1, id, body) /\ patch' # patch)
        => patch'[1].update.checklist =
             [k \in RecognizedKeys(body) |-> SuppliedValue(body, k)]

\* job i changes by the update of the request in flight, and by nothing else
C4_Applies(i) ==
    /\ patch[1].pc = "update"
    /\ patch[1].id = i
    /\ DOMAIN patch[1].update.checklist \subseteq TheSevenFields
    /\ DOMAIN jobs'[i] = DOMAIN jobs[i]
    /\ {"quoteId", "schedule", "property", "addOns", "pricing", "currency",
        "status", "notes", "createdAt"} \subseteq DOMAIN jobs[i]
    /\ \A f \in DOMAIN jobs[i] \ {"checklist", "updatedAt"} : jobs'[i][f] = jobs[i][f]
    /\ DOMAIN jobs'[i].checklist = TheSevenFields
    /\ \A k \in TheSevenFields :
         jobs'[i].checklist[k] =
            IF k \in DOMAIN patch[1].update.checklist
            THEN patch[1].update.checklist[k]
            ELSE jobs[i].checklist[k]

C4_Frame ==
    /\ Len(quotes') >= Len(quotes)
    /\ \A i \in 1..Len(quotes) : quotes'[i] = quotes[i]
    /\ Len(linen_orders') >= Len(linen_orders)
    /\ \A i \in 1..Len(linen_orders) : linen_orders'[i] = linen_orders[i]
    /\ Len(jobs') >= Len(jobs)
    /\ \A i \in 1..Len(jobs) : jobs'[i] = jobs[i] \/ C4_Applies(i)

\* C4: a successful checklist request changes, in its job, only the
\* recognized checklist fields its body names, each set to the boolean
\* supplied, and updatedAt; an unrecognized key is ignored and never stored;
\* the checklist fields not named and every other field of the job keep
\* their values; every other document is unchanged; no step changes a quote
\* or a linen order once created
C4_OnlyNamedFields == [][C4_Carries /\ C4_Frame]_vars

\* after bathroomsDone: true with an unrecognized key on job 1, beside a
\* second job, a quote and a linen order
C4_Witness ==
    /\ patch[1].pc = "done" /\ patch[1].status = 200 /\ patch[1].id = 1
    /\ patch[1].update.checklist = [bathroomsDone |-> TRUE]
    /\ jobs[1].checklist.bathroomsDone
    /\ ~jobs[1].checklist.floorsDone
    /\ DOMAIN jobs[1].checklist = TheSevenFields
    /\ jobs[1].updatedAt # jobs[1].createdAt
    /\ Len(jobs) = 2 /\ Len(quotes) = 1 /\ Len(linen_orders) = 1

====
